---- MODULE Spec2Model ----
(***************************************************************************)
(* Model of the GitHub repository cache of devinciSpaceBackend.            *)
(*                                                                         *)
(* The repository holds two implementations of the cache:                  *)
(*   server/gh/repositories.py  threads + threading.Timer   (SpecR)        *)
(*   server/gh/base.py          asyncio + background thread (SpecB)        *)
(* Each is modelled as its own specification over shared clock, disk file  *)
(* and lock variables.                                                     *)
(***************************************************************************)
EXTENDS Integers, Sequences, FiniteSets, TLC

VARIABLES
    now,            \* int(time()), seconds
    disk,           \* content of REPOSITORY_JSON
    CACHE_LOCK,     \* holder of the threading.Lock, or Free
    pc,             \* position of every thread
    fresh,          \* local `repos` built by a refresh in progress
    ret,            \* what a fetch call handed to its caller
    REPOSITORIES,   \* repositories.py global
    REFRESH_TIMER,  \* repositories.py global
    timers,         \* threading.Timer objects created so far
    REPO_CACHE,     \* base.py global (a dict object, mutated in place)
    USER_CACHE,     \* base.py global
    userDisk,       \* content of USER_JSON
    cursor,         \* base.py: position of the `for repo in repos` loop
    wake,           \* base.py: end of the sleep(ttl) of a schedule_refresh loop
    github,         \* the records the listing call of the external source answers
    blogposts,      \* rows of the table blogposts
    comments,       \* rows of the table comments
    reply,          \* the latest call of a post/comment service and its outcome
    tags,           \* Post._tags of the post being edited
    tagcall,        \* the latest call of TagManager and its outcome
    hist            \* history variables used to state the properties

vars == <<now, disk, CACHE_LOCK, pc, fresh, ret, REPOSITORIES,
          REFRESH_TIMER, timers, REPO_CACHE, USER_CACHE, userDisk, cursor,
          wake, github, blogposts, comments, reply, tags, tagcall, hist>>

(***************************************************************************)
(* Bounds                                                                  *)
(***************************************************************************)
MaxTicks == 1
MaxTimers == 2
MaxTagList == 3

(***************************************************************************)
(* Program constants                                                       *)
(***************************************************************************)
FRESH_THRESHOLD == 7200
TTL == 3600
TOP_N == 10
THUMBNAIL_PATHS == <<"thumbnail.png", ".github/thumbnail.png", "logo.png">>

TickStep == TTL
StartTime == FRESH_THRESHOLD

Free == "free"
Threads == {"t1", "t2"}

\* Position of a thread: the operation it runs and the place in it
At(o, l) == [op |-> o, at |-> l]
Idle == At("none", "idle")

(***************************************************************************)
(* JSON values as the cache code sees them.  One record shape for all, the *)
(* field `kind` says which Python value it is:                             *)
(*   null      None                                                        *)
(*   snap      dict with count / updated (int) / repos                     *)
(*   list      a non-empty list                                            *)
(*   emptyobj  {}                                                          *)
(*   badupd    dict whose "updated" is a string                            *)
(*   norepos   dict with an int "updated" and no "repos"                   *)
(***************************************************************************)
JVal(k, u, r, c) == [kind |-> k, updated |-> u, repos |-> r, count |-> c]
None == JVal("null", 0, <<>>, 0)
Snap(u, r) == JVal("snap", u, r, Len(r))
JList == JVal("list", 0, <<>>, 0)
EmptyObj == JVal("emptyobj", 0, <<>>, 0)
NoRepos(u) == JVal("norepos", u, <<>>, 0)

\* File states that are not JSON values.
Missing == JVal("missing", 0, <<>>, 0)
Garbage == JVal("garbage", 0, <<>>, 0)

IsDict(j) == j.kind \in {"snap", "emptyobj", "badupd", "norepos"}
\* Python truthiness of the value
Truthy(j) == j.kind \in {"snap", "list", "badupd", "norepos"}
\* `"updated" in j`  (for a list: membership of the string, false)
HasUpdated(j) == j.kind \in {"snap", "badupd", "norepos"}
HasRepos(j) == j.kind \in {"snap", "badupd"}
\* j.get("repos", [])
GetRepos(j) == IF HasRepos(j) THEN j.repos ELSE <<>>

\* base.py keeps lists by reference: a value of REPO_CACHE, or a list handed
\* out by fetch, whose `ref` is a thread is the list object `repos` that the
\* refresh running in that thread is still working on (its content is
\* fresh[ref]); with ref = NoRef the content is `repos`.
NoRef == "-"
Obj(j) == [kind |-> j.kind, updated |-> j.updated, repos |-> j.repos,
           count |-> j.count, ref |-> NoRef]

\* What a fetch hands to its caller: a list (`stamp` remembers the "updated"
\* of the snapshot it was taken from, -1 for the literal []), or an exception.
Returned(r, u) == [kind |-> "seq", repos |-> r, stamp |-> u]
Raised == [kind |-> "raise", repos |-> <<>>, stamp |-> -1]
NoRet == [kind |-> "none", repos |-> <<>>, stamp |-> -1]
StampOf(j) == IF j.kind \in {"snap", "norepos"} THEN j.updated ELSE -1

(***************************************************************************)
(* The external repository source (GitHub) and the disk file               *)
(***************************************************************************)
\* One record of the listing call: a PyGithub Repository.  `files` are the
\* paths at which the repository holds a file, `langs` its languages.
RepoRec(n, u, p, f, l) ==
    [name |-> n, updated_at |-> u, private |-> p, files |-> f, langs |-> l]

ListingA ==
    << RepoRec("alpha", 3, FALSE, {".github/thumbnail.png", "logo.png"}, <<"Python">>),
       RepoRec("beta", 5, TRUE, {"thumbnail.png"}, <<"C">>),
       RepoRec("gamma", 4, FALSE, {}, <<>>) >>
ListingB ==
    << RepoRec("delta", 7, FALSE, {"thumbnail.png"}, <<"Go">>) >>
\* A repository whose only candidate image is the last of THUMBNAIL_PATHS
ListingC ==
    << RepoRec("epsilon", 8, FALSE, {"logo.png"}, <<"Rust">>) >>
Listings == {ListingA}
\* base.py asks GitHub for public repositories only
ListingsB == {ListingB, ListingC}

\* Listings of up to 12 records with pairwise distinct timestamps, in three
\* orders of arrival, with every choice of private records among three.
RepoNames == <<"r01", "r02", "r03", "r04", "r05", "r06",
               "r07", "r08", "r09", "r10", "r11", "r12">>
StampOrders == {"asc", "desc", "mixed"}
Stamp(ord, i) ==
    CASE ord = "asc" -> i
      [] ord = "desc" -> 13 - i
      [] OTHER -> (i * 5) % 13
MkListing(n, ord, priv) ==
    [i \in 1..n |-> RepoRec(RepoNames[i], Stamp(ord, i), i \in priv,
                            IF i % 2 = 0 THEN {"logo.png"} ELSE {}, <<"Python">>)]
ListingInputs ==
    {MkListing(n, ord, priv) :
        n \in {0, 10, 12}, ord \in StampOrders, priv \in SUBSET {1, 6, 12}}

Min(a, b) == IF a < b THEN a ELSE b

\* list.sort(key=updated_at, reverse=True): stable, descending
RECURSIVE InsertDesc(_, _)
InsertDesc(x, s) ==
    IF s = <<>> THEN <<x>>
    ELSE IF Head(s).updated_at >= x.updated_at
         THEN <<Head(s)>> \o InsertDesc(x, Tail(s))
         ELSE <<x>> \o s

RECURSIVE SortDesc(_)
SortDesc(s) ==
    IF s = <<>> THEN <<>>
    ELSE InsertDesc(s[Len(s)], SortDesc(SubSeq(s, 1, Len(s) - 1)))

\* repositories[:10]
TakeTop(s) == SubSeq(s, 1, Min(TOP_N, Len(s)))

\* get_project_thumbnail: first candidate path that resolves, else ""
RECURSIVE ProbeFrom(_, _)
ProbeFrom(repo, i) ==
    IF i > Len(THUMBNAIL_PATHS) THEN ""
    ELSE IF THUMBNAIL_PATHS[i] \in repo.files THEN THUMBNAIL_PATHS[i]
         ELSE ProbeFrom(repo, i + 1)
get_project_thumbnail(repo) == ProbeFrom(repo, 1)

\* The dict built for one repository by refresh_repositories.  "updated" is a
\* datetime in memory and a string once it went through json.dump.
RepositoryDict(repo) ==
    [title |-> repo.name, thumbnail |-> get_project_thumbnail(repo),
     tags |-> repo.langs, updated |-> repo.updated_at, updFmt |-> "datetime"]

\* The comprehension without its `if not repo.private`
PublicDicts_unfiltered(s) == [i \in 1..Len(s) |-> RepositoryDict(s[i])]

RECURSIVE PublicDicts(_)
PublicDicts(s) ==
    IF s = <<>> THEN <<>>
    ELSE IF Head(s).private THEN PublicDicts(Tail(s))
         ELSE <<RepositoryDict(Head(s))>> \o PublicDicts(Tail(s))

\* Private records dropped before the slice instead of after it
SelectRepos_filterFirst(listing) ==
    PublicDicts(TakeTop(SortDesc(SelectSeq(listing, LAMBDA r : ~r.private))))

\* The list `repos` of refresh_repositories for a listing
SelectRepos(listing) == PublicDicts(TakeTop(SortDesc(listing)))

\* Only the list is written, not the object around it
Dump_listOnly(j) == IF j.kind = "snap" THEN JList ELSE j

\* json.dump(..., default=str): datetimes become strings
DumpRepo(r) == [r EXCEPT !.updFmt = "str"]
Dump(j) == [j EXCEPT !.repos = [i \in 1..Len(j.repos) |-> DumpRepo(j.repos[i])]]

\* json.load of the file; a missing or undecodable file gives None
Load(d) == IF d.kind \in {"missing", "garbage"} THEN None ELSE d

\* A snapshot written by an earlier run of the process
OldRepo == [title |-> "old", thumbnail |-> "", tags |-> <<"Lua">>,
            updated |-> 1, updFmt |-> "str"]
OldSnap == Snap(0, <<OldRepo>>)
BadUpd == JVal("badupd", 0, <<OldRepo>>, 1)

\* A snapshot written one hour before the process starts
RecentSnap == Snap(StartTime - TTL, <<OldRepo>>)

\* The states the disk file may be in when the process starts
DiskInputs == {Missing, JList, BadUpd, NoRepos(0), OldSnap, RecentSnap}

\* More files: the text `null`, `{}`, and a snapshot object with 11 entries
LongSnap == Snap(0, [i \in 1..(TOP_N + 1) |-> OldRepo])
DiskFiles == DiskInputs \cup {None, EmptyObj, LongSnap}

(***************************************************************************)
(* TagManager (server/db/entities.py): tags as bits of an integer kept in  *)
(* a byte string.  A byte string is a sequence of numbers 0..255, most     *)
(* significant first; a result is a value or the exception raised.         *)
(***************************************************************************)
\* TagManager.TAGS: the bit of a name is its place in this sequence (1..29)
TagNames ==
    << "backend", "frontend", "database", "security", "python", "javascript",
       "java", "c/c++", "arduino", "raspberry pi", "linux", "windows",
       "hardware", "software", "iot", "wearable", "ollama", "llm", "numpy",
       "scipy", "opencv", "flask", "vite", "esp32", "micropython",
       "multiprocessing", "music theory", "audio processing",
       "computer vision" >>
Recognised == {TagNames[i] : i \in 1..Len(TagNames)}
TAGS == [t \in Recognised |-> CHOOSE i \in 1..Len(TagNames) : TagNames[i] = t]

Ok(v) == [exc |-> "none", value |-> v]
Raises(e) == [exc |-> e, value |-> <<>>]

\* tag_int & (1 << b)
BitSet(n, b) == (n \div 2^b) % 2 = 1

\* The bit is added to the number, not or-ed into it
SetBit_add(n, b) == n + 2^b

\* tag_int |= 1 << b
SetBit(n, b) == IF BitSet(n, b) THEN n ELSE n + 2^b
\* tag_int &= ~(1 << b)
ClearBit(n, b) == IF BitSet(n, b) THEN n - 2^b ELSE n

\* int.from_bytes(bs, byteorder="big")
RECURSIVE from_bytes(_)
from_bytes(bs) ==
    IF bs = <<>> THEN 0
    ELSE 256 * from_bytes(SubSeq(bs, 1, Len(bs) - 1)) + bs[Len(bs)]

\* n.to_bytes(k, byteorder="big"): OverflowError when n needs more than k bytes
Fits(n, k) == IF k = 0 THEN n = 0 ELSE n \div 256^(k - 1) < 256
to_bytes(n, k) ==
    IF Fits(n, k) THEN Ok([i \in 1..k |-> (n \div 256^(k - i)) % 256])
    ELSE Raises("OverflowError")

\* (max(cls.TAGS.values()) // 8) + 1
NumBytes == (Len(TagNames) \div 8) + 1

\* encode_tags, lines 54-70: the loop over tag_list, then to_bytes
RECURSIVE EncodeFrom(_, _)
EncodeFrom(tag_list, tag_int) ==
    IF tag_list = <<>> THEN to_bytes(tag_int, NumBytes)
    ELSE IF Head(tag_list) \in Recognised
         THEN EncodeFrom(Tail(tag_list), SetBit(tag_int, TAGS[Head(tag_list)]))
         ELSE Raises("ValueError")
encode_tags(tag_list) == EncodeFrom(tag_list, 0)

\* decode_tags, lines 72-81: the names in the order of TAGS
decode_tags(tag_bytes) ==
    SelectSeq(TagNames, LAMBDA t : BitSet(from_bytes(tag_bytes), TAGS[t]))

\* has_tag, lines 83-95
has_tag(tag_bytes, tag) ==
    IF tag \notin Recognised THEN Raises("ValueError")
    ELSE Ok(BitSet(from_bytes(tag_bytes), TAGS[tag]))

\* add_tag, lines 97-111: the result has the length of the argument
add_tag(tag_bytes, tag) ==
    IF tag \notin Recognised THEN Raises("ValueError")
    ELSE to_bytes(SetBit(from_bytes(tag_bytes), TAGS[tag]), Len(tag_bytes))

\* remove_tag, lines 113-127
remove_tag(tag_bytes, tag) ==
    IF tag \notin Recognised THEN Raises("ValueError")
    ELSE to_bytes(ClearBit(from_bytes(tag_bytes), TAGS[tag]), Len(tag_bytes))

\* Post.tags_str, lines 318-319: format(byte, "08b") of every byte, joined.
\* A string of binary digits is a sequence of 0 and 1.
tags_str(bs) ==
    [i \in 1..(8 * Len(bs)) |-> (bs[((i - 1) \div 8) + 1] \div 2^(7 - ((i - 1) % 8))) % 2]

\* int(row[5], 2): ValueError on the empty string
RECURSIVE IntOfDigits(_)
IntOfDigits(str) ==
    IF str = <<>> THEN 0
    ELSE 2 * IntOfDigits(SubSeq(str, 1, Len(str) - 1)) + str[Len(str)]
\* int.bit_length()
RECURSIVE bit_length(_)
bit_length(n) == IF n = 0 THEN 0 ELSE 1 + bit_length(n \div 2)

\* services.py, lines 348-350 (and 441-443, 500-502): the column as bytes
ParseTags(str) ==
    IF str = <<>> THEN Raises("ValueError")
    ELSE LET binary == IntOfDigits(str)
         IN to_bytes(binary, (bit_length(binary) + 7) \div 8)

\* Names handed to TagManager: four recognised ones, with bits in the first,
\* second and last byte, and one that is not in TAGS
TagSample == {"backend", "c/c++", "software", "computer vision", "rust"}
RECURSIVE ListsUpTo(_)
ListsUpTo(n) ==
    IF n = 0 THEN {<<>>}
    ELSE LET shorter == ListsUpTo(n - 1)
         IN shorter \cup {Append(l, t) : l \in {x \in shorter : Len(x) = n - 1},
                                          t \in TagSample}
TagLists == ListsUpTo(MaxTagList)

\* A call of TagManager: the method, its arguments (`before` is the byte
\* string handed in) and its result
TagCall(o, l, t, b, r) == [op |-> o, list |-> l, tag |-> t, before |-> b, result |-> r]
NoCall == TagCall("none", <<>>, "", <<>>, Ok(<<>>))

\* What the calls of TagManager never touch
UNCHANGED_STORE ==
    UNCHANGED <<now, disk, CACHE_LOCK, pc, fresh, ret, REPOSITORIES, REFRESH_TIMER,
                timers, REPO_CACHE, USER_CACHE, userDisk, cursor, wake, github,
                blogposts, comments, reply, hist>>

\* Post(tags=TagManager.encode_tags(tag_list)), as in main.py line 34
EncodeTags(tag_list) ==
    LET r == encode_tags(tag_list)
    IN /\ tagcall' = TagCall("encode_tags", tag_list, "", tags, r)
       /\ tags' = IF r.exc = "none" THEN r.value ELSE tags
       /\ UNCHANGED_STORE

\* post.tags = TagManager.add_tag(post.tags, tag)
AddTag(tag) ==
    LET r == add_tag(tags, tag)
    IN /\ tagcall' = TagCall("add_tag", <<>>, tag, tags, r)
       /\ tags' = IF r.exc = "none" THEN r.value ELSE tags
       /\ UNCHANGED_STORE

\* post.tags = TagManager.remove_tag(post.tags, tag)
RemoveTag(tag) ==
    LET r == remove_tag(tags, tag)
    IN /\ tagcall' = TagCall("remove_tag", <<>>, tag, tags, r)
       /\ tags' = IF r.exc = "none" THEN r.value ELSE tags
       /\ UNCHANGED_STORE

\* The post is stored and read back: tags_str() into the column, the column
\* parsed by PostService.list into the tags of the Post it returns
StoreAndList ==
    LET r == ParseTags(tags_str(tags))
    IN /\ tagcall' = TagCall("tags_str", <<>>, "", tags, r)
       /\ tags' = IF r.exc = "none" THEN r.value ELSE tags
       /\ UNCHANGED_STORE

(***************************************************************************)
(* Values of the post/comment store (server/db)                            *)
(***************************************************************************)
\* Entities handed to a service; `given` FALSE is the keyword left out (None)
Comment(u, c) == [given |-> TRUE, uid |-> u, content |-> c]
NoComment == [given |-> FALSE, uid |-> "", content |-> ""]
Post(u, b, cs) == [given |-> TRUE, uid |-> u, tags |-> b, comments |-> cs]
NoPost == [given |-> FALSE, uid |-> "", tags |-> <<>>, comments |-> <<>>]
\* An identifier left out (None), or the empty string
NoId == ""

CommentUids == {"c1", "c2"}
PostUids == {"p1", "p2"}
Contents == {"x", "y"}
\* entities.py, lines 216 and 280: `uid: str = str(uuid4())` is evaluated once,
\* when the `def` is executed, so every Comment() carries the one uid and
\* every Post() the other
DefaultUid == [Comment |-> "c-default", Post |-> "p-default"]
\* Post(...) without tags: bytes(0); with tags: as main.py line 34 builds them
DefaultTags == <<>>
TagInputs == {DefaultTags, encode_tags(<<"python", "software">>).value}

CommentInputs == {NoComment} \cup {Comment(u, c) : u \in CommentUids, c \in Contents}
\* Lists of comments; <<>> is also the keyword left out
BatchInputs ==
    {<<>>, <<Comment("c1", "x")>>, <<Comment("c1", "x"), Comment("c2", "y")>>,
     <<Comment("c2", "x"), Comment("c2", "y")>>}
PostInputs == {NoPost} \cup {Post(u, DefaultTags, cs) : u \in PostUids, cs \in BatchInputs}

\* Entities built without a uid: Comment(content=c), [Comment(...), Comment(...)],
\* and posts built with or without a uid and with or without tags
DefaultComments == {Comment(DefaultUid.Comment, c) : c \in Contents}
DefaultBatches ==
    {<<>>, <<Comment(DefaultUid.Comment, "x"), Comment(DefaultUid.Comment, "y")>>}
PostsToList ==
    {Post(u, b, cs) : u \in PostUids \cup {DefaultUid.Post}, b \in TagInputs,
                      cs \in DefaultBatches}

\* Rows of the tables (schema.py), reduced to the columns the services key on
CommentRow(c, p) == [uid |-> c.uid, post_uid |-> p, content |-> c.content]
PostRow(p) == [uid |-> p.uid, tags |-> tags_str(p.tags)]

\* A call of a service: the operation, whether its required arguments were
\* given, and what the caller got (None, an entity, a list, an exception)
\* `args` are the entities handed to an insert and `db` is how the database
\* answered the call ("-" where the call is not an insert or a listing)
Reply(o, g, k, i) ==
    [op |-> o, given |-> g, kind |-> k, items |-> i, args |-> <<>>, db |-> "-"]
Called(r, a, d) == [r EXCEPT !.args = a, !.db = d]
NoReply == Reply("none", TRUE, "none", {})

(***************************************************************************)
(* History variables                                                       *)
(***************************************************************************)
HistInit(d) ==
    [disk0 |-> d,                  \* the disk file at process start
     ioFail |-> FALSE,             \* some write of the disk file has failed
     lastInstalled |-> None,       \* snapshot of the latest successful refresh
     persisted |-> None,           \* value in memory that the latest write dumped
     entry |-> [t \in Threads |-> None],      \* stale snapshot held when fetch started
     refreshed |-> [t \in Threads |-> "no"],  \* "no" | "ok" | "failed"
     mine |-> [t \in Threads |-> None],       \* snapshot the call's refresh installed
     taken |-> [t \in Threads |-> <<>>]]      \* content of the list when returned

\* The snapshot j if it is one of age >= 7200 at `time`, else None
StaleEntry(j, time) ==
    IF j.kind = "snap" /\ time - j.updated >= FRESH_THRESHOLD THEN j ELSE None

ClearHist(h, t) ==
    [h EXCEPT !.entry[t] = None, !.refreshed[t] = "no", !.mine[t] = None,
              !.taken[t] = <<>>]

(***************************************************************************)
(* server/gh/repositories.py                                               *)
(***************************************************************************)
\* A Timer that fired or was cancelled does nothing any more: only pending
\* timers are kept in `timers` (at most MaxTimers at a time), and a reference
\* to a finished one is the value Finished.
NoTimer == 0         \* REFRESH_TIMER = None
Unbound == -1        \* the global after `del REFRESH_TIMER`
Finished == -2       \* REFRESH_TIMER refers to a timer that fired or was cancelled
TimerIds == 1..MaxTimers
UnusedTimer == [state |-> "unused", due |-> 0]
Pending == {k \in TimerIds : timers[k].state = "pending"}

\* What repositories.py never touches
UNCHANGED_B == UNCHANGED <<REPO_CACHE, USER_CACHE, userDisk, cursor, wake, github,
                          blogposts, comments, reply, tags, tagcall>>

\* Outcome of a validity check of fetch_repositories (lines 176-181, 187-193)
\* on the copy j at time `time`: "raise" is int - str (TypeError)
ValidityCheck(j, time) ==
    IF HasUpdated(j)
    THEN IF j.kind = "badupd" THEN "raise"
         ELSE IF time - j.updated < FRESH_THRESHOLD THEN "return" ELSE "go on"
    ELSE "go on"

\* fetch_repositories, lines 172-181: copy under the lock, first validity check
FetchCheck1(t) ==
    /\ pc[t] = Idle /\ CACHE_LOCK = Free
    /\ LET c == ValidityCheck(REPOSITORIES, now)
       IN /\ pc' = [pc EXCEPT ![t] = IF c = "go on" THEN At("fetch", "read")
                                                    ELSE At("fetch", "done")]
          /\ ret' = [ret EXCEPT ![t] =
                       CASE c = "raise" -> Raised
                         [] c = "return" -> Returned(GetRepos(REPOSITORIES),
                                                     StampOf(REPOSITORIES))
                         [] OTHER -> NoRet]
    /\ hist' = [hist EXCEPT !.entry[t] = StaleEntry(REPOSITORIES, now)]
    /\ UNCHANGED <<now, disk, CACHE_LOCK, fresh, REPOSITORIES, REFRESH_TIMER, timers>>
    /\ UNCHANGED_B

\* read_repositories, lines 105-123: the global becomes the file's content
read_repositories(t) ==
    /\ pc[t] = At("fetch", "read") /\ CACHE_LOCK = Free
    /\ REPOSITORIES' = Load(disk)
    /\ pc' = [pc EXCEPT ![t] = At("fetch", "check2")]
    /\ UNCHANGED <<now, disk, CACHE_LOCK, fresh, ret, REFRESH_TIMER, timers, hist>>
    /\ UNCHANGED_B

\* fetch_repositories, lines 184-193: copy again, second validity check
FetchCheck2(t) ==
    /\ pc[t] = At("fetch", "check2") /\ CACHE_LOCK = Free
    /\ LET c == ValidityCheck(REPOSITORIES, now)
       IN /\ pc' = [pc EXCEPT ![t] = IF c = "go on" THEN At("fetch", "net")
                                                    ELSE At("fetch", "done")]
          /\ ret' = [ret EXCEPT ![t] =
                       CASE c = "raise" -> Raised
                         [] c = "return" -> Returned(GetRepos(REPOSITORIES),
                                                     StampOf(REPOSITORIES))
                         [] OTHER -> NoRet]
    /\ UNCHANGED <<now, disk, CACHE_LOCK, fresh, REPOSITORIES, REFRESH_TIMER, timers, hist>>
    /\ UNCHANGED_B

\* Outcomes of the network phase of refresh_repositories (lines 69-85):
\* get_user / get_repos raises, get_languages of a listed repository raises,
\* or every call answers.
NetOutcomes ==
    {[stage |-> "listing", listing |-> <<>>], [stage |-> "ok", listing |-> github]}
      \cup IF SelectRepos(github) = <<>> THEN {}
           ELSE {[stage |-> "languages", listing |-> github]}

\* refresh_repositories, lines 68-85 and 98-103: the calls to GitHub, made
\* without the lock; an exception skips the assignment of the global.
RefreshNet(t) ==
    /\ pc[t].at = "net" /\ pc[t].op \in {"fetch", "sched"}
    /\ \E o \in NetOutcomes :
         IF o.stage = "ok"
         THEN /\ fresh' = [fresh EXCEPT ![t] = SelectRepos(o.listing)]
              /\ pc' = [pc EXCEPT ![t].at = "install"]
              /\ UNCHANGED hist
         ELSE /\ pc' = [pc EXCEPT ![t].at = "write"]
              /\ hist' = [hist EXCEPT !.refreshed[t] = "failed"]
              /\ UNCHANGED fresh
    /\ UNCHANGED <<now, disk, CACHE_LOCK, ret, REPOSITORIES, REFRESH_TIMER, timers>>
    /\ UNCHANGED_B

\* "count" reports the number of records asked for, not the number kept
NewSnapshot_countAsked(repos, time) == JVal("snap", time, repos, TOP_N)

\* refresh_repositories, lines 88-96: replace the global under the lock
NewSnapshot(repos, time) == Snap(time, repos)

RefreshInstall(t) ==
    /\ pc[t].at = "install" /\ pc[t].op \in {"fetch", "sched"} /\ CACHE_LOCK = Free
    /\ REPOSITORIES' = NewSnapshot(fresh[t], now)
    /\ pc' = [pc EXCEPT ![t].at = "write"]
    /\ fresh' = [fresh EXCEPT ![t] = <<>>]
    /\ hist' = [hist EXCEPT !.refreshed[t] = "ok",
                            !.mine[t] = IF pc[t].op = "fetch" THEN REPOSITORIES' ELSE @,
                            !.lastInstalled = REPOSITORIES']
    /\ UNCHANGED <<now, disk, CACHE_LOCK, ret, REFRESH_TIMER, timers>>
    /\ UNCHANGED_B

\* write_repositories, lines 126-138.  open() may fail (file untouched) and
\* the dump may fail half way (file left undecodable); both are caught.
WriteOutcome(j, d, how) ==
    CASE how = "ok" -> Dump(j)
      [] how = "open" -> d
      [] how = "torn" -> Garbage

\* A write that fails resets the global, as a failed read does
write_repositories_resets(t) ==
    /\ pc[t].at = "write" /\ pc[t].op \in {"fetch", "sched"} /\ CACHE_LOCK = Free
    /\ \E how \in {"ok", "open", "torn"} :
         /\ disk' = WriteOutcome(REPOSITORIES, disk, how)
         /\ REPOSITORIES' = IF how = "ok" THEN REPOSITORIES ELSE None
         /\ hist' = [hist EXCEPT !.ioFail = @ \/ how # "ok",
                                 !.persisted = IF how = "ok" THEN REPOSITORIES ELSE None]
    /\ pc' = [pc EXCEPT ![t].at = IF pc[t].op = "fetch" THEN "return" ELSE "cancel"]
    /\ UNCHANGED <<now, CACHE_LOCK, fresh, ret, REFRESH_TIMER, timers>>
    /\ UNCHANGED_B

write_repositories(t) ==
    /\ pc[t].at = "write" /\ pc[t].op \in {"fetch", "sched"} /\ CACHE_LOCK = Free
    /\ \E how \in {"ok", "open", "torn"} :
         /\ disk' = WriteOutcome(REPOSITORIES, disk, how)
         /\ hist' = [hist EXCEPT !.ioFail = @ \/ how # "ok",
                                 !.persisted = IF how = "ok" THEN REPOSITORIES ELSE None]
    /\ pc' = [pc EXCEPT ![t].at = IF pc[t].op = "fetch" THEN "return" ELSE "cancel"]
    /\ UNCHANGED <<now, CACHE_LOCK, fresh, ret, REPOSITORIES, REFRESH_TIMER, timers>>
    /\ UNCHANGED_B

\* fetch_repositories, lines 201-202
FetchResult(j) ==
    IF Truthy(j)
    THEN IF j.kind \in {"list", "norepos"} THEN Raised   \* TypeError / KeyError
         ELSE Returned(j.repos, StampOf(j))
    ELSE Returned(<<>>, -1)

FetchReturn(t) ==
    /\ pc[t] = At("fetch", "return") /\ CACHE_LOCK = Free
    /\ ret' = [ret EXCEPT ![t] = FetchResult(REPOSITORIES)]
    /\ pc' = [pc EXCEPT ![t].at = "done"]
    /\ UNCHANGED <<now, disk, CACHE_LOCK, fresh, REPOSITORIES, REFRESH_TIMER, timers, hist>>
    /\ UNCHANGED_B

\* The call is over (returned, or died on an exception): the thread is free
ThreadEnd(t) ==
    /\ pc[t].at \in {"done", "crashed"}
    /\ pc' = [pc EXCEPT ![t] = Idle]
    /\ ret' = [ret EXCEPT ![t] = NoRet]
    /\ hist' = ClearHist(hist, t)
    /\ UNCHANGED <<now, disk, CACHE_LOCK, fresh, REPOSITORIES, REFRESH_TIMER, timers>>
    /\ UNCHANGED_B

\* An invocation of schedule_repository_refresh made by application code
ScheduleCall(t) ==
    /\ pc[t] = Idle
    /\ pc' = [pc EXCEPT ![t] = At("sched", "check")]
    /\ UNCHANGED <<now, disk, CACHE_LOCK, fresh, ret, REPOSITORIES,
                   REFRESH_TIMER, timers, hist>>
    /\ UNCHANGED_B

\* threading.Timer(3600, schedule_repository_refresh): when the delay has
\* passed and the timer was not cancelled, its thread runs the callback.
TimerFire(k, t) ==
    /\ k \in TimerIds /\ pc[t] = Idle
    /\ timers[k].state = "pending" /\ now >= timers[k].due
    /\ timers' = [timers EXCEPT ![k] = UnusedTimer]
    /\ REFRESH_TIMER' = IF REFRESH_TIMER = k THEN Finished ELSE REFRESH_TIMER
    /\ pc' = [pc EXCEPT ![t] = At("sched", "check")]
    /\ UNCHANGED <<now, disk, CACHE_LOCK, fresh, ret, REPOSITORIES, hist>>
    /\ UNCHANGED_B

\* schedule_repository_refresh, line 149, applied to the copy
\* "raise": .get on a list (AttributeError) or int - str (TypeError)
StalenessCheck(j, time) ==
    CASE j.kind = "null" -> "refresh"
      [] j.kind \in {"list", "badupd"} -> "raise"
      [] j.kind = "emptyobj" -> IF time - 0 > TTL THEN "refresh" ELSE "skip"
      [] OTHER -> IF time - j.updated > TTL THEN "refresh" ELSE "skip"

\* schedule_repository_refresh, lines 145-155
ScheduleCheck(t) ==
    /\ pc[t] = At("sched", "check") /\ CACHE_LOCK = Free
    /\ LET c == StalenessCheck(REPOSITORIES, now)
       IN pc' = [pc EXCEPT ![t].at = CASE c = "refresh" -> "net"
                                       [] c = "skip" -> "cancel"
                                       [] OTHER -> "crashed"]
    /\ UNCHANGED <<now, disk, CACHE_LOCK, fresh, ret, REPOSITORIES, REFRESH_TIMER,
                   timers, hist>>
    /\ UNCHANGED_B

\* lines 158-160: `if REFRESH_TIMER is not None: REFRESH_TIMER.cancel();
\* del REFRESH_TIMER`.  Reading the global after another thread deleted it
\* raises NameError, which ends the invocation.
ScheduleCancel(t) ==
    /\ pc[t] = At("sched", "cancel")
    /\ CASE REFRESH_TIMER = Unbound ->
              /\ pc' = [pc EXCEPT ![t].at = "crashed"]
              /\ UNCHANGED <<timers, REFRESH_TIMER>>
         [] REFRESH_TIMER = NoTimer ->
              /\ pc' = [pc EXCEPT ![t].at = "new"]
              /\ UNCHANGED <<timers, REFRESH_TIMER>>
         [] OTHER ->
              /\ timers' = IF REFRESH_TIMER \in TimerIds
                            THEN [timers EXCEPT ![REFRESH_TIMER] = UnusedTimer]
                            ELSE timers
              /\ REFRESH_TIMER' = Unbound
              /\ pc' = [pc EXCEPT ![t].at = "new"]
    /\ UNCHANGED <<now, disk, CACHE_LOCK, fresh, ret, REPOSITORIES, hist>>
    /\ UNCHANGED_B

\* lines 164-165: a new Timer is stored in the global and started
ScheduleNew(t) ==
    /\ pc[t] = At("sched", "new")
    /\ \E k \in TimerIds :
         /\ timers[k].state = "unused"
         /\ \A j \in TimerIds : j < k => timers[j].state # "unused"
         /\ timers' = [timers EXCEPT ![k] = [state |-> "pending", due |-> now + TTL]]
         /\ REFRESH_TIMER' = k
    /\ pc' = [pc EXCEPT ![t].at = "done"]
    /\ UNCHANGED <<now, disk, CACHE_LOCK, fresh, ret, REPOSITORIES, hist>>
    /\ UNCHANGED_B

\* Time passes
Tick ==
    /\ now < StartTime + MaxTicks * TickStep
    /\ now' = now + TickStep
    /\ UNCHANGED <<disk, CACHE_LOCK, pc, fresh, ret, REPOSITORIES,
                   REFRESH_TIMER, timers, REPO_CACHE, USER_CACHE, userDisk,
                   cursor, wake, github, blogposts, comments, reply, tags,
                   tagcall, hist>>

InitCommon ==
    /\ now = StartTime
    /\ CACHE_LOCK = Free
    /\ pc = [t \in Threads |-> Idle]
    /\ fresh = [t \in Threads |-> <<>>]
    /\ REPOSITORIES = None
    /\ REFRESH_TIMER = NoTimer
    /\ timers = [k \in TimerIds |-> UnusedTimer]
    /\ REPO_CACHE = Obj(EmptyObj)
    /\ USER_CACHE = "empty"
    /\ cursor = [t \in Threads |-> 0]
    /\ wake = [t \in Threads |-> 0]
    /\ blogposts = {}
    /\ comments = {}
    /\ reply = NoReply
    /\ tags = <<>>
    /\ tagcall = NoCall

InitR ==
    /\ InitCommon
    /\ ret = [t \in Threads |-> NoRet]
    /\ userDisk = "missing"
    /\ github \in Listings
    /\ \E d \in DiskInputs : disk = d /\ hist = HistInit(d)

NextR ==
    \/ Tick
    \/ \E t \in Threads : FetchCheck1(t)
    \/ \E t \in Threads : read_repositories(t)
    \/ \E t \in Threads : FetchCheck2(t)
    \/ \E t \in Threads : RefreshNet(t)
    \/ \E t \in Threads : RefreshInstall(t)
    \/ \E t \in Threads : write_repositories(t)
    \/ \E t \in Threads : FetchReturn(t)
    \/ \E t \in Threads : ThreadEnd(t)
    \/ \E t \in Threads : ScheduleCall(t)
    \/ \E t \in Threads, k \in TimerIds : TimerFire(k, t)
    \/ \E t \in Threads : ScheduleCheck(t)
    \/ \E t \in Threads : ScheduleCancel(t)
    \/ \E t \in Threads : ScheduleNew(t)

SpecR == InitR /\ [][NextR]_vars

(***************************************************************************)
(* server/gh/repositories.py, one caller at a time: the calls of           *)
(* fetch_repositories made one after the other by a single thread, from    *)
(* any disk file and any listing, across restarts of the process           *)
(***************************************************************************)
Caller == "t1"

\* The process ends and is started again: the module globals are back to
\* their initial values (lines 31-33), the disk file stays.
Restart ==
    /\ pc' = [t \in Threads |-> Idle]
    /\ ret' = [t \in Threads |-> NoRet]
    /\ fresh' = [t \in Threads |-> <<>>]
    /\ REPOSITORIES' = None
    /\ REFRESH_TIMER' = NoTimer
    /\ timers' = [k \in TimerIds |-> UnusedTimer]
    /\ CACHE_LOCK' = Free
    /\ hist' = [hist EXCEPT !.entry = [t \in Threads |-> None],
                            !.refreshed = [t \in Threads |-> "no"],
                            !.mine = [t \in Threads |-> None]]
    /\ UNCHANGED <<now, disk>>
    /\ UNCHANGED_B

InitF ==
    /\ InitCommon
    /\ ret = [t \in Threads |-> NoRet]
    /\ userDisk = "missing"
    /\ github \in ListingInputs
    /\ \E d \in DiskFiles : disk = d /\ hist = HistInit(d)

NextF ==
    \/ Tick
    \/ Restart
    \/ FetchCheck1(Caller)
    \/ read_repositories(Caller)
    \/ FetchCheck2(Caller)
    \/ RefreshNet(Caller)
    \/ RefreshInstall(Caller)
    \/ write_repositories(Caller)
    \/ FetchReturn(Caller)
    \/ ThreadEnd(Caller)

SpecF == InitF /\ [][NextF]_vars

(***************************************************************************)
(* Properties of server/gh/repositories.py                                *)
(***************************************************************************)
FetchDone(t) == pc[t] = At("fetch", "done")
DumpRepos(r) == [i \in 1..Len(r) |-> DumpRepo(r[i])]

\* C1: a fetch that starts with a stale snapshot in memory and whose refresh
\* fails returns the repositories of that snapshot (while no other refresh
\* has installed anything newer), not an empty sequence.
C1_StaleServedWhenRefreshFails ==
    \A t \in Threads :
        (/\ FetchDone(t)
         /\ hist.entry[t].kind = "snap"
         /\ hist.refreshed[t] = "failed"
         /\ hist.lastInstalled.updated <= hist.entry[t].updated)
        => /\ ret[t].kind = "seq"
           /\ DumpRepos(ret[t].repos) = DumpRepos(hist.entry[t].repos)

\* C2: with a well-formed snapshot on disk at start, no refresh ever
\* succeeding and no disk write failing, every fetch returns the
\* repositories of that snapshot.
C2_SnapshotSurvivesOutage ==
    \A t \in Threads :
        (/\ FetchDone(t)
         /\ hist.disk0.kind = "snap"
         /\ hist.lastInstalled = None
         /\ ~hist.ioFail)
        => ret[t] = Returned(hist.disk0.repos, hist.disk0.updated)

\* C4: fetch never lets an exception reach its caller.
C4_FetchNeverRaises == \A t \in Threads : ret[t].kind # "raise"

\* Threads inside refresh_repositories
Refreshing == {t \in Threads : pc[t].at \in {"net", "install"}}

\* C5: at most one execution of refresh is in progress at any time.
C5_OneRefreshAtATime == Cardinality(Refreshing) <= 1

\* C7: a fetch that performed a successful refresh returns data of a
\* snapshot at least as recent as the one its refresh installed.
C7_ReadsOwnRefresh ==
    \A t \in Threads :
        (FetchDone(t) /\ hist.refreshed[t] = "ok")
        => /\ ret[t].kind = "seq"
           /\ ret[t].stamp >= hist.mine[t].updated

\* C8: once a refresh has succeeded, the disk file right after every
\* completed persist step is the snapshot of the latest successful refresh.
C8_PersistWritesLatest ==
    [][\A t \in Threads :
         (/\ pc[t].at = "write" /\ pc'[t].at # "write"
          /\ hist.lastInstalled # None
          /\ ~hist'.ioFail)
         => disk' = Dump(hist.lastInstalled)]_vars

CycleEnded(t) == pc[t].op = "sched" /\ pc[t].at \in {"done", "crashed"}
CycleRunning(t) == pc[t].op = "sched" /\ pc[t].at \notin {"done", "crashed"}

\* C10: a cycle of the background task that has ended, in whatever way
\* (refresh failed, persist failed, staleness check met a malformed value),
\* leaves the task alive: a timer is pending or another cycle is running.
C10_FailureKeepsTaskAlive ==
    (\E t \in Threads : CycleEnded(t))
    => (Pending # {} \/ \E u \in Threads : CycleRunning(u))

\* C11: the "updated" of the in-memory snapshot never decreases: a snapshot
\* that replaces another one is at least as recent.
C11_UpdatedNeverDecreases ==
    [][(REPOSITORIES.kind = "snap" /\ REPOSITORIES'.kind = "snap")
         => REPOSITORIES'.updated >= REPOSITORIES.updated]_vars

C13_AtMostTen ==
    REPOSITORIES.kind = "snap" => Len(REPOSITORIES.repos) <= TOP_N

FreshSnap(j, time) == j.kind = "snap" /\ time - j.updated < FRESH_THRESHOLD

\* C14: a fetch that finds a snapshot younger than 7200 seconds in memory
\* returns its repositories at once (no call to the external source) and
\* leaves memory and disk as they are; and such a snapshot is replaced by
\* different data only by a refresh, so that two such fetches with no
\* refresh in between return the same data.
C14_FreshFetchIsPureRead ==
    [][/\ \A t \in Threads :
            (pc[t] = Idle /\ pc'[t].op = "fetch" /\ FreshSnap(REPOSITORIES, now))
            => /\ pc'[t].at = "done"
               /\ ret'[t] = Returned(REPOSITORIES.repos, REPOSITORIES.updated)
               /\ REPOSITORIES' = REPOSITORIES
               /\ disk' = disk
       /\ (/\ FreshSnap(REPOSITORIES, now) /\ FreshSnap(REPOSITORIES', now')
           /\ Dump(REPOSITORIES') # Dump(REPOSITORIES))
          => \E t \in Threads : pc[t].at = "install" /\ pc'[t].at = "write"]_vars

\* Names of the records of a listing that are marked private
PrivateNames(listing) ==
    {listing[i].name : i \in {j \in 1..Len(listing) : listing[j].private}}
Titles(repos) == {repos[i].title : i \in 1..Len(repos)}

\* C15: no repository whose record is marked private appears in the
\* snapshot, in the list a refresh is building or in what fetch returns.
C15_NoPrivateRepository ==
    /\ Titles(REPOSITORIES.repos) \cap PrivateNames(github) = {}
    /\ \A t \in Threads :
          /\ Titles(fresh[t]) \cap PrivateNames(github) = {}
          /\ Titles(ret[t].repos) \cap PrivateNames(github) = {}

\* A refresh has installed a snapshot although the most recently updated
\* record of the listing is private.
C15_Witness ==
    /\ REPOSITORIES.kind = "snap" /\ REPOSITORIES = hist.lastInstalled
    /\ REPOSITORIES.count > 0
    /\ \E i \in 1..Len(github) :
          /\ github[i].private
          /\ \A j \in 1..Len(github) : github[j].updated_at <= github[i].updated_at

\* Position of record i of a listing when ordered by descending timestamp
Rank(listing, i) ==
    Cardinality({j \in 1..Len(listing) :
                    listing[j].updated_at > listing[i].updated_at}) + 1
\* The non-private records among the 10 most recently updated
Expected(listing) ==
    {i \in 1..Len(listing) : Rank(listing, i) <= TOP_N /\ ~listing[i].private}

C17_EveryFiringRefreshes ==
    [][\A t \in Threads :
         (pc[t] = At("sched", "check") /\ pc'[t] # pc[t]
          /\ REPOSITORIES.kind \in {"null", "snap"})
         => pc'[t] = At("sched", "net")]_vars

C19_LoadInstallsOnlySnapshots ==
    [][\A t \in Threads :
         (pc[t] = At("fetch", "read") /\ pc'[t] # pc[t])
         => REPOSITORIES'.kind \in {"null", "snap"}]_vars

\* C21: a fetch that runs while the cache holds a snapshot, fresh or stale,
\* leaves that snapshot in place: its load step neither replaces it with
\* other content of the disk file nor resets the cache to absent.
C21_SnapshotNotReloaded ==
    [][\A t \in Threads :
         (/\ pc[t] = At("fetch", "read") /\ pc'[t] = At("fetch", "check2")
          /\ REPOSITORIES.kind = "snap")
         => Dump(REPOSITORIES') = Dump(REPOSITORIES)]_vars

(***************************************************************************)
(* server/gh/base.py                                                       *)
(***************************************************************************)
\* What base.py never touches
UNCHANGED_R == UNCHANGED <<REPOSITORIES, REFRESH_TIMER, timers, github,
                          blogposts, comments, reply, tags, tagcall>>

\* read_json, lines 47-54: {} when the file cannot be opened or decoded
read_json(d) == IF d.kind \in {"missing", "garbage"} THEN EmptyObj ELSE d

\* read_json(USER_JSON) as far as `not USER_CACHE` can tell
read_user(u) == IF u = "user" THEN "user" ELSE "empty"

\* Content of the list a cache value or a returned value refers to
Content(x) == IF x.ref \in Threads THEN fresh[x.ref] ELSE x.repos

\* What json.dump writes for the cache value
Strip(x) == JVal(x.kind, x.updated, Content(x), x.count)

RetB(k, r, u, p) == [kind |-> k, repos |-> r, stamp |-> u, ref |-> p]
NoRetB == RetB("none", <<>>, -1, NoRef)
RaisedB == RetB("raise", <<>>, -1, NoRef)
\* x.get("repos", []): the list object itself, not a copy
ReposOf(x) ==
    IF HasRepos(x)
    THEN RetB("seq", IF x.ref = NoRef THEN x.repos ELSE <<>>, StampOf(x), x.ref)
    ELSE RetB("seq", <<>>, -1, NoRef)

\* The dict built for one record of the listing by refresh, lines 135-142
RepoGist(repo) ==
    [name |-> repo.name, thumbnail |-> "", hasLanguages |-> FALSE, languages |-> <<>>]
Gists(listing) == [i \in 1..Len(listing) |-> RepoGist(listing[i])]

Catalog == UNION {{l[i] : i \in 1..Len(l)} : l \in ListingsB}
Lookup(n) == CHOOSE r \in Catalog : r.name = n

\* A snapshot written by an earlier run of the process
OldGist == [name |-> "old", thumbnail |-> "", hasLanguages |-> TRUE,
            languages |-> <<"Lua">>]
OldSnapB == Snap(0, <<OldGist>>)
BadUpdB == JVal("badupd", 0, <<OldGist>>, 1)
DiskInputsB == {Missing, JList, OldSnapB}

\* fetch_repositories, lines 182-195: under the lock, load the file if the
\* cache is empty and copy; then the validity check on the copy
BFetchCheck(t) ==
    /\ pc[t] = Idle /\ CACHE_LOCK = Free
    /\ LET cache == IF Truthy(REPO_CACHE) THEN REPO_CACHE ELSE Obj(read_json(disk))
           c == ValidityCheck(cache, now)
       IN /\ REPO_CACHE' = cache
          /\ pc' = [pc EXCEPT ![t] = IF c = "go on" THEN At("bfetch", "r_lock")
                                                    ELSE At("bfetch", "done")]
          /\ ret' = [ret EXCEPT ![t] = CASE c = "raise" -> RaisedB
                                         [] c = "return" -> ReposOf(cache)
                                         [] OTHER -> NoRetB]
          /\ hist' = [hist EXCEPT !.taken[t] =
                          IF c = "return" /\ HasRepos(cache) THEN Content(cache) ELSE <<>>]
    /\ UNCHANGED <<now, disk, CACHE_LOCK, fresh, USER_CACHE, userDisk, cursor, wake>>
    /\ UNCHANGED_R

\* refresh, lines 114-119: take the lock, load the user file if needed; when
\* there is still no user the lock stays held for the call to GitHub
BRefreshLock(t) ==
    /\ pc[t].at = "r_lock" /\ CACHE_LOCK = Free
    /\ LET u == IF USER_CACHE = "empty" THEN read_user(userDisk) ELSE USER_CACHE
       IN /\ USER_CACHE' = u
          /\ CACHE_LOCK' = IF u = "empty" THEN t ELSE Free
          /\ pc' = [pc EXCEPT ![t].at = IF u = "empty" THEN "r_user" ELSE "r_list"]
    /\ hist' = [hist EXCEPT !.refreshed[t] = "no", !.mine[t] = None]
    /\ UNCHANGED <<now, disk, fresh, ret, REPO_CACHE, userDisk, cursor, wake>>
    /\ UNCHANGED_R

\* The refresh of thread t ends: nobody changes its list any more, so every
\* reference to it is as good as its final content.
Settle(x, t) == IF x.ref = t THEN [x EXCEPT !.repos = fresh[t], !.ref = NoRef] ELSE x

EndRefresh(t, how) ==
    /\ pc' = [pc EXCEPT ![t].at = "persist"]
    /\ ret' = [u \in Threads |-> Settle(ret[u], t)]
    /\ cursor' = [cursor EXCEPT ![t] = 0]
    /\ hist' = [hist EXCEPT !.refreshed[t] = how,
                            !.lastInstalled =
                                IF how = "ok" THEN Strip(hist.mine[t]) ELSE @]

\* refresh, lines 120-125: get_user with the lock held; a status other than
\* 200 or an exception aborts the refresh, the `with` releases the lock
BGetUser(t) ==
    /\ pc[t].at = "r_user" /\ CACHE_LOCK = t
    /\ CACHE_LOCK' = Free
    /\ \E ok \in BOOLEAN :
         IF ok
         THEN /\ USER_CACHE' = "user"
              /\ pc' = [pc EXCEPT ![t].at = "r_list"]
              /\ UNCHANGED <<ret, cursor, hist>>
         ELSE /\ EndRefresh(t, "failed")
              /\ UNCHANGED USER_CACHE
    /\ UNCHANGED <<now, disk, fresh, REPO_CACHE, userDisk, wake>>
    /\ UNCHANGED_R

\* refresh, lines 130-142: get_repos without the lock; every record of the
\* answer becomes a RepoGist
BGetRepos(t) ==
    /\ pc[t].at = "r_list"
    /\ \E o \in {[ok |-> FALSE, listing |-> <<>>], [ok |-> TRUE, listing |-> github]} :
         IF o.ok
         THEN /\ fresh' = [fresh EXCEPT ![t] = Gists(o.listing)]
              /\ pc' = [pc EXCEPT ![t].at = "r_install"]
              /\ UNCHANGED <<ret, cursor, hist>>
         ELSE /\ EndRefresh(t, "failed")
              /\ UNCHANGED fresh
    /\ UNCHANGED <<now, disk, CACHE_LOCK, REPO_CACHE, USER_CACHE, userDisk, wake>>
    /\ UNCHANGED_R

\* refresh, lines 144-151: REPO_CACHE.update(...) under the lock.  The dict
\* is changed in place and now holds the list `repos` itself; update() on
\* None or on a list raises AttributeError, which the handler swallows.
BInstall(t) ==
    /\ pc[t].at = "r_install" /\ CACHE_LOCK = Free
    /\ IF IsDict(REPO_CACHE)
       THEN /\ REPO_CACHE' = [kind |-> "snap", updated |-> now, repos |-> <<>>,
                              count |-> Len(fresh[t]), ref |-> t]
            /\ cursor' = [cursor EXCEPT ![t] = 1]
            /\ pc' = [pc EXCEPT ![t].at = "r_fill"]
            /\ hist' = [hist EXCEPT !.mine[t] = REPO_CACHE']
            /\ UNCHANGED <<ret, fresh>>
       ELSE /\ EndRefresh(t, "broken")
            /\ fresh' = [fresh EXCEPT ![t] = <<>>]
            /\ UNCHANGED REPO_CACHE
    /\ UNCHANGED <<now, disk, CACHE_LOCK, USER_CACHE, userDisk, wake>>
    /\ UNCHANGED_R

\* One round of `for repo in repos`, lines 153-169.
\*   "lang_status"   get_repo_languages answers with a status other than 200
\*   "lang_exc"      get_repo_languages raises
\*   "thumb_status"  get_repo_thumbnail answers with a status other than 200
\*   "thumb_exc"     get_repo_thumbnail raises
\*   "ok"            both answer (404 for the thumbnail if there is no file)
FillOutcomes == {"ok", "lang_status", "lang_exc", "thumb_status", "thumb_exc"}

Filled(g, o) ==
    LET r == Lookup(g.name)
        withLang == [g EXCEPT !.hasLanguages = TRUE, !.languages = r.langs]
    IN CASE o \in {"lang_status", "lang_exc"} -> g
         [] o \in {"thumb_status", "thumb_exc"} -> withLang
         [] OTHER -> IF THUMBNAIL_PATHS[1] \in r.files
                     THEN [withLang EXCEPT !.thumbnail = THUMBNAIL_PATHS[1]]
                     ELSE withLang

BFill(t) ==
    /\ pc[t].at = "r_fill"
    /\ IF cursor[t] > Len(fresh[t])
       THEN /\ EndRefresh(t, "ok")
            /\ REPO_CACHE' = Settle(REPO_CACHE, t)
            /\ fresh' = [fresh EXCEPT ![t] = <<>>]
       ELSE /\ \E o \in FillOutcomes :
                 /\ fresh' = [fresh EXCEPT ![t][cursor[t]] = Filled(@, o)]
                 /\ pc' = [pc EXCEPT ![t].at =
                              IF o \in {"lang_exc", "thumb_exc"} THEN "r_abort" ELSE "r_fill"]
            /\ cursor' = [cursor EXCEPT ![t] = @ + 1]
            /\ UNCHANGED <<ret, REPO_CACHE, hist>>
    /\ UNCHANGED <<now, disk, CACHE_LOCK, USER_CACHE, userDisk, wake>>
    /\ UNCHANGED_R

\* refresh, lines 171-172: the exception of a per-repository call is logged
BAbort(t) ==
    /\ pc[t].at = "r_abort"
    /\ EndRefresh(t, "failed")
    /\ REPO_CACHE' = Settle(REPO_CACHE, t)
    /\ fresh' = [fresh EXCEPT ![t] = <<>>]
    /\ UNCHANGED <<now, disk, CACHE_LOCK, USER_CACHE, userDisk, wake>>
    /\ UNCHANGED_R

\* write_json, lines 39-44, of both files; a failed write of the repository
\* file leaves it undecodable
WriteFiles ==
    /\ \E how \in {"ok", "torn"} :
        /\ disk' = IF how = "ok" THEN Strip(REPO_CACHE) ELSE Garbage
        /\ hist' = [hist EXCEPT !.ioFail = @ \/ how # "ok"]
    /\ userDisk' = IF USER_CACHE = "user" THEN "user" ELSE "empty"

\* fetch_repositories, lines 201-204: persist, then hand out the list
BFetchResult(x) ==
    IF Truthy(x)
    THEN IF x.kind = "list" THEN RaisedB ELSE ReposOf(x)     \* list has no .get
    ELSE RetB("seq", <<>>, -1, NoRef)

BFetchReturn(t) ==
    /\ pc[t] = At("bfetch", "persist") /\ CACHE_LOCK = Free
    /\ \E how \in {"ok", "torn"} :
        /\ disk' = IF how = "ok" THEN Strip(REPO_CACHE) ELSE Garbage
        /\ hist' = [hist EXCEPT !.ioFail = @ \/ how # "ok",
                                !.taken[t] = IF HasRepos(REPO_CACHE)
                                             THEN Content(REPO_CACHE) ELSE <<>>]
    /\ userDisk' = IF USER_CACHE = "user" THEN "user" ELSE "empty"
    /\ ret' = [ret EXCEPT ![t] = BFetchResult(REPO_CACHE)]
    /\ pc' = [pc EXCEPT ![t].at = "done"]
    /\ UNCHANGED <<now, CACHE_LOCK, fresh, REPO_CACHE, USER_CACHE, cursor, wake>>
    /\ UNCHANGED_R

\* The caller has its answer; the thread may serve another request
BThreadEnd(t) ==
    /\ pc[t] = At("bfetch", "done")
    /\ pc' = [pc EXCEPT ![t] = Idle]
    /\ ret' = [ret EXCEPT ![t] = NoRetB]
    /\ hist' = ClearHist(hist, t)
    /\ UNCHANGED <<now, disk, CACHE_LOCK, fresh, REPO_CACHE, USER_CACHE, userDisk,
                   cursor, wake>>
    /\ UNCHANGED_R

\* Thread(target=schedule_refresh).start(): schedule_refresh, lines 207-217
schedule_refresh(t) ==
    /\ pc[t] = Idle
    /\ pc' = [pc EXCEPT ![t] = At("loop", "r_lock")]
    /\ UNCHANGED <<now, disk, CACHE_LOCK, fresh, ret, REPO_CACHE, USER_CACHE,
                   userDisk, cursor, wake, hist>>
    /\ UNCHANGED_R

\* schedule_refresh, lines 218-221: persist under the lock, then sleep(ttl)
BLoopPersist(t) ==
    /\ pc[t] = At("loop", "persist") /\ CACHE_LOCK = Free
    /\ WriteFiles
    /\ pc' = [pc EXCEPT ![t].at = "sleep"]
    /\ wake' = [wake EXCEPT ![t] = now + TTL]
    /\ UNCHANGED <<now, CACHE_LOCK, fresh, ret, REPO_CACHE, USER_CACHE, cursor>>
    /\ UNCHANGED_R

\* schedule_refresh, lines 216-217: the sleep is over, next round of the loop
BLoopWake(t) ==
    /\ pc[t] = At("loop", "sleep") /\ now >= wake[t]
    /\ pc' = [pc EXCEPT ![t].at = "r_lock"]
    /\ wake' = [wake EXCEPT ![t] = 0]
    /\ UNCHANGED <<now, disk, CACHE_LOCK, fresh, ret, REPO_CACHE, USER_CACHE,
                   userDisk, cursor, hist>>
    /\ UNCHANGED_R

InitB ==
    /\ InitCommon
    /\ userDisk = "missing"
    /\ ret = [t \in Threads |-> NoRetB]
    /\ github \in ListingsB
    /\ \E d \in DiskInputsB : disk = d /\ hist = HistInit(d)

NextB ==
    \/ Tick
    \/ \E t \in Threads : BFetchCheck(t)
    \/ \E t \in Threads : BRefreshLock(t)
    \/ \E t \in Threads : BGetUser(t)
    \/ \E t \in Threads : BGetRepos(t)
    \/ \E t \in Threads : BInstall(t)
    \/ \E t \in Threads : BFill(t)
    \/ \E t \in Threads : BAbort(t)
    \/ \E t \in Threads : BFetchReturn(t)
    \/ \E t \in Threads : BThreadEnd(t)
    \/ \E t \in Threads : schedule_refresh(t)
    \/ \E t \in Threads : BLoopPersist(t)
    \/ \E t \in Threads : BLoopWake(t)

SpecB == InitB /\ [][NextB]_vars

(***************************************************************************)
(* server/gh/base.py, callers that are coroutines of one event loop         *)
(* (asyncio.gather of several fetch_repositories()).  CACHE_LOCK is a      *)
(* threading.Lock: a coroutine that reaches `with CACHE_LOCK:` while       *)
(* another coroutine holds the lock across an await blocks the thread that *)
(* runs the loop, and with it every coroutine of the loop.                 *)
(***************************************************************************)
\* Positions whose next statement is `with CACHE_LOCK:` (lines 182, 114,
\* 144, 201)
LockSites == {"idle", "r_lock", "r_install", "persist"}
Blocked == At("bfetch", "blocked")
\* The thread of the event loop is inside Lock.acquire()
LoopStuck == \E t \in Threads : pc[t] = Blocked

\* `with CACHE_LOCK:` executed while another coroutine of the loop holds it
BlockOnLock(t) ==
    /\ pc[t].at \in LockSites
    /\ CACHE_LOCK \in Threads \ {t}
    /\ pc' = [pc EXCEPT ![t] = Blocked]
    /\ UNCHANGED <<now, disk, CACHE_LOCK, fresh, ret, REPO_CACHE, USER_CACHE,
                   userDisk, cursor, wake, hist>>
    /\ UNCHANGED_R

\* One step of coroutine t, run by the thread of the loop
Coroutine(t) ==
    \/ ~LoopStuck /\ BFetchCheck(t)
    \/ ~LoopStuck /\ BRefreshLock(t)
    \/ ~LoopStuck /\ BGetUser(t)
    \/ ~LoopStuck /\ BGetRepos(t)
    \/ ~LoopStuck /\ BInstall(t)
    \/ ~LoopStuck /\ BFill(t)
    \/ ~LoopStuck /\ BAbort(t)
    \/ ~LoopStuck /\ BFetchReturn(t)
    \/ ~LoopStuck /\ BThreadEnd(t)
    \/ ~LoopStuck /\ BlockOnLock(t)

NextL == Tick \/ \E t \in Threads : Coroutine(t)

SpecL == InitB /\ [][NextL]_vars

\* The loop runs every coroutine that is ready, and every call to GitHub
\* and every file operation returns or fails within its timeout
SpecLFair == SpecL /\ \A t \in Threads : WF_vars(Coroutine(t))

TypeOKB == now \in Nat /\ CACHE_LOCK \in Threads \cup {Free}

C3_AbortedRefreshInstallsNothing ==
    \A t \in Threads : hist.refreshed[t] = "failed" => hist.mine[t] = None

\* C6: a list handed out by fetch is not the list of a refresh still in
\* progress, and its content never changes after it was handed out.
C6_ReturnedListIsFinal ==
    \A t \in Threads :
        (pc[t] = At("bfetch", "done") /\ ret[t].kind = "seq")
        => /\ ret[t].ref = NoRef
           /\ Content(ret[t]) = hist.taken[t]

\* Threads running the loop of schedule_refresh
BackgroundLoops == {t \in Threads : pc[t].op = "loop"}

\* C9: at most one background refresh task exists at any time, after any
\* number of invocations of the scheduling operation.
C9_OneBackgroundTask == Cardinality(BackgroundLoops) <= 1

\* Positions at which a call to the external source is in flight
InFlight == {"net", "r_user", "r_list", "r_fill"}

\* C22: no execution holds CACHE_LOCK while one of its calls to the
\* external source (user profile, listing, languages, thumbnail) is in flight.
C22_NoLockAcrossNetwork ==
    \A t \in Threads : pc[t].at \in InFlight => CACHE_LOCK # t

\* C23: a failure of the user-profile call, or of the languages or thumbnail
\* call of one repository, does not end the refresh: after the user-profile
\* call the refresh goes on to the listing call, and the loop over the
\* repositories goes on until every entry has had its lookups.
C23_PartialFailureIsLocal ==
    [][\A t \in Threads :
         /\ pc[t].at = "r_user" => pc'[t].at \in {"r_user", "r_list"}
         /\ pc[t].at = "r_fill" =>
               \/ pc'[t].at = "r_fill"
               \/ pc'[t].at = "persist" /\ cursor[t] > Len(fresh[t])]_vars

\* A lookup of the entry has failed: it has no languages, or no thumbnail
\* although the repository holds a file at the first candidate path
LookupFailed(e) ==
    \/ ~e.hasLanguages
    \/ e.thumbnail = "" /\ THUMBNAIL_PATHS[1] \in Lookup(e.name).files

\* C24: in the snapshot of a completed refresh the thumbnail of every
\* repository (whose lookups did not fail) is the first path of
\* THUMBNAIL_PATHS, in that order, at which the repository holds a file, and
\* is empty only if it holds a file at none of them.
C24_ThumbnailIsFirstCandidate ==
    hist.lastInstalled.kind = "snap" =>
        \A i \in 1..Len(hist.lastInstalled.repos) :
            LET e == hist.lastInstalled.repos[i]
            IN ~LookupFailed(e) => e.thumbnail = get_project_thumbnail(Lookup(e.name))

\* C25: CACHE_LOCK cannot deadlock: every call of fetch that has started
\* eventually completes, whatever the interleaving of the callers.
C25_EveryFetchCompletes ==
    \A t \in Threads : (pc[t].op = "bfetch") ~> (pc[t].at = "done")

(***************************************************************************)
(* server/db/services.py                                                   *)
(***************************************************************************)
UNCHANGED_CACHE ==
    UNCHANGED <<now, disk, CACHE_LOCK, pc, fresh, ret, REPOSITORIES, REFRESH_TIMER,
                timers, REPO_CACHE, USER_CACHE, userDisk, cursor, wake, github, hist>>
\* What the services never touch
UNCHANGED_TAGS == UNCHANGED <<tags, tagcall>>

\* Manager.log(message, level=ERROR): the message is recorded, the call
\* returns; the caller carries on with the reply it had prepared
Manager_log(r) == r

\* Manager.cursor() gives a cursor or None; a statement may fail with an
\* sqlite3.Error (database locked, disk full)
DbOutcomes == {"ok", "nocursor", "sqlerror"}

\* The test for the entity removed
NotGiven_unchecked(e) == FALSE

\* `if not comment:` / `if post is None:`
NotGiven(e) == ~e.given
\* `if not commentid:` / `if not postid:`
NoIdGiven(i) == i = NoId
\* `if not comments:`
NoBatch(cs) == cs = <<>>

HasUid(table, u) == \E r \in table : r.uid = u

\* cursor.executemany: one INSERT per element, the first primary-key
\* conflict raises IntegrityError and ends it
RECURSIVE InsertMany(_, _, _)
InsertMany(table, cs, p) ==
    IF cs = <<>> \/ HasUid(table, Head(cs).uid) THEN table
    ELSE InsertMany(table \cup {CommentRow(Head(cs), p)}, Tail(cs), p)

\* CommentService.get, lines 57-99
CommentService_get(commentid, db) ==
    /\ reply' =
         IF NoIdGiven(commentid)
         THEN Manager_log(Reply("comment.get", commentid # NoId, "none", {}))
         ELSE IF db # "ok" THEN Reply("comment.get", commentid # NoId, "none", {})
         ELSE LET rows == {r \in comments : r.uid = commentid}
              IN Reply("comment.get", commentid # NoId,
                       IF rows = {} THEN "none" ELSE "comment", rows)
    /\ UNCHANGED <<blogposts, comments>>
    /\ UNCHANGED_CACHE
    /\ UNCHANGED_TAGS

\* CommentService.list, lines 101-148
CommentService_list(postid, db) ==
    /\ reply' =
         IF NoIdGiven(postid)
         THEN Manager_log(Reply("comment.list", postid # NoId, "list", {}))
         ELSE IF db # "ok" THEN Reply("comment.list", postid # NoId, "list", {})
         ELSE Reply("comment.list", postid # NoId, "list",
                    {r \in comments : r.post_uid = postid})
    /\ UNCHANGED <<blogposts, comments>>
    /\ UNCHANGED_CACHE
    /\ UNCHANGED_TAGS

\* CommentService.insert, lines 150-194.  Past the tests, comment.uid on
\* None raises AttributeError, which `except SQLError` does not catch.
CommentService_insert(comment, post_uid, db) ==
    LET g == comment.given /\ post_uid # NoId
    IN /\ IF NotGiven(comment) \/ NoIdGiven(post_uid)
          THEN /\ reply' = Manager_log(Reply("comment.insert", g, "none", {}))
               /\ UNCHANGED comments
          ELSE IF db = "nocursor"
          THEN /\ reply' = Manager_log(Reply("comment.insert", g, "none", {}))
               /\ UNCHANGED comments
          ELSE IF ~comment.given
          THEN /\ reply' = Reply("comment.insert", g, "raise", {})
               /\ UNCHANGED comments
          ELSE /\ reply' = Called(Reply("comment.insert", g, "none", {}),
                                   <<comment>>, db)
               /\ comments' = IF db = "sqlerror" \/ HasUid(comments, comment.uid)
                               THEN comments
                               ELSE comments \cup {CommentRow(comment, post_uid)}
       /\ UNCHANGED blogposts
       /\ UNCHANGED_CACHE
       /\ UNCHANGED_TAGS

\* CommentService.insert_batch, lines 196-241
CommentService_insert_batch(cs, postid, db) ==
    LET g == cs # <<>> /\ postid # NoId
    IN /\ reply' = IF g THEN Called(Reply("comment.insert_batch", g, "none", {}),
                                     cs, db)
                    ELSE Reply("comment.insert_batch", g, "none", {})
       /\ comments' = IF NoBatch(cs) \/ NoIdGiven(postid) \/ db # "ok"
                       THEN comments
                       ELSE InsertMany(comments, cs, postid)
       /\ UNCHANGED blogposts
       /\ UNCHANGED_CACHE
       /\ UNCHANGED_TAGS

\* CommentService.update, lines 243-281
CommentService_update(comment, db) ==
    /\ IF NotGiven(comment) \/ db = "nocursor"
       THEN /\ reply' = Manager_log(Reply("comment.update", comment.given, "none", {}))
            /\ UNCHANGED comments
       ELSE IF ~comment.given
       THEN /\ reply' = Reply("comment.update", comment.given, "raise", {})
            /\ UNCHANGED comments
       ELSE /\ reply' = Reply("comment.update", comment.given, "none", {})
            /\ comments' =
                 IF db = "sqlerror" THEN comments
                 ELSE {IF r.uid = comment.uid
                       THEN [r EXCEPT !.content = comment.content] ELSE r : r \in comments}
    /\ UNCHANGED blogposts
    /\ UNCHANGED_CACHE
    /\ UNCHANGED_TAGS

\* CommentService.delete, lines 283-309
CommentService_delete(comment, db) ==
    /\ IF NotGiven(comment) \/ db = "nocursor"
       THEN /\ reply' = Manager_log(Reply("comment.delete", comment.given, "none", {}))
            /\ UNCHANGED comments
       ELSE IF ~comment.given
       THEN /\ reply' = Reply("comment.delete", comment.given, "raise", {})
            /\ UNCHANGED comments
       ELSE /\ reply' = Reply("comment.delete", comment.given, "none", {})
            /\ comments' = IF db = "sqlerror" THEN comments
                            ELSE {r \in comments : r.uid # comment.uid}
    /\ UNCHANGED blogposts
    /\ UNCHANGED_CACHE
    /\ UNCHANGED_TAGS

\* PostService.insert, lines 368-407: the row of the post, then its
\* comments through CommentService.insert_batch (db2 is the fate of that
\* second statement)
PostService_insert(post, db, db2) ==
    /\ IF NotGiven(post) \/ db = "nocursor"
       THEN /\ reply' = Manager_log(Reply("post.insert", post.given, "none", {}))
            /\ UNCHANGED <<blogposts, comments>>
       ELSE IF ~post.given
       THEN /\ reply' = Reply("post.insert", post.given, "raise", {})
            /\ UNCHANGED <<blogposts, comments>>
       ELSE /\ reply' = Called(Reply("post.insert", post.given, "none", {}),
                                <<post>>, IF db = "ok" THEN db2 ELSE db)
            /\ IF db = "sqlerror" \/ HasUid(blogposts, post.uid)
               THEN UNCHANGED <<blogposts, comments>>
               ELSE /\ blogposts' = blogposts \cup {PostRow(post)}
                    /\ comments' = IF NoBatch(post.comments) \/ db2 # "ok"
                                    THEN comments
                                    ELSE InsertMany(comments, post.comments, post.uid)
    /\ UNCHANGED_CACHE
    /\ UNCHANGED_TAGS

\* The rows of a table in every order the SELECT may deliver them
Orders(table) ==
    {o \in [1..Cardinality(table) -> table] :
        \A r \in table : \E i \in 1..Cardinality(table) : o[i] = r}

\* A Post of the result: the parsed tags and the comments of
\* CommentService.list(postid=row[0])
ListedPost(row, b) ==
    [uid |-> row.uid, tags |-> b,
     comments |-> {c \in comments : c.post_uid = row.uid}]

\* The loop of lines 347-360 over the rows: int(row[5], 2) raising
\* ValueError leaves the loop, and `return result` in the `finally` clause
\* hands out what was appended until then
RECURSIVE ListRows(_)
ListRows(rows) ==
    IF rows = <<>> THEN {}
    ELSE LET b == ParseTags(Head(rows).tags)
         IN IF b.exc # "none" THEN {}
            ELSE {ListedPost(Head(rows), b.value)} \cup ListRows(Tail(rows))

\* PostService.list, lines 313-366, with the default limit and page (the
\* table never holds more than 20 rows here)
PostService_list(db) ==
    /\ \E order \in Orders(blogposts) :
         reply' =
           IF db = "nocursor"
           THEN Manager_log(Called(Reply("post.list", TRUE, "list", {}), <<>>, db))
           ELSE IF db = "sqlerror"
           THEN Called(Reply("post.list", TRUE, "list", {}), <<>>, db)
           ELSE Called(Reply("post.list", TRUE, "list", ListRows(order)), <<>>, db)
    /\ UNCHANGED <<blogposts, comments>>
    /\ UNCHANGED_CACHE
    /\ UNCHANGED_TAGS

InitS ==
    /\ InitCommon
    /\ ret = [t \in Threads |-> NoRet]
    /\ userDisk = "missing"
    /\ github = <<>>
    /\ disk = Missing
    /\ hist = HistInit(Missing)

NextS ==
    \/ \E i \in CommentUids \cup {NoId}, db \in DbOutcomes : CommentService_get(i, db)
    \/ \E i \in PostUids \cup {NoId}, db \in DbOutcomes : CommentService_list(i, db)
    \/ \E c \in CommentInputs, i \in PostUids \cup {NoId}, db \in DbOutcomes :
            CommentService_insert(c, i, db)
    \/ \E cs \in BatchInputs, i \in PostUids \cup {NoId}, db \in DbOutcomes :
            CommentService_insert_batch(cs, i, db)
    \/ \E c \in CommentInputs, db \in DbOutcomes : CommentService_update(c, db)
    \/ \E c \in CommentInputs, db \in DbOutcomes : CommentService_delete(c, db)
    \/ \E p \in PostInputs, db \in DbOutcomes, db2 \in {"ok", "sqlerror"} :
            PostService_insert(p, db, db2)
    \/ \E db \in DbOutcomes : PostService_list(db)

SpecS == InitS /\ [][NextS]_vars

\* The store used with entities built without a uid, and listed
InitP == InitS

NextP ==
    \/ \E c \in DefaultComments, i \in PostUids, db \in DbOutcomes :
            CommentService_insert(c, i, db)
    \/ \E cs \in DefaultBatches, i \in PostUids, db \in DbOutcomes :
            CommentService_insert_batch(cs, i, db)
    \/ \E c \in DefaultComments, db \in DbOutcomes : CommentService_delete(c, db)
    \/ \E p \in PostsToList, db \in DbOutcomes, db2 \in {"ok", "sqlerror"} :
            PostService_insert(p, db, db2)
    \/ \E db \in DbOutcomes : PostService_list(db)

SpecP == InitP /\ [][NextP]_vars

\* A post with the default tags (bytes(0)) and the calls that edit them
InitT == InitS

NextT ==
    \/ \E l \in TagLists : EncodeTags(l)
    \/ \E t \in TagSample : AddTag(t)
    \/ \E t \in TagSample : RemoveTag(t)
    \/ StoreAndList

SpecT == InitT /\ [][NextT]_vars

Range(seq) == {seq[i] : i \in 1..Len(seq)}

\* C26: for a list of recognised names, with or without duplicates and in
\* any order, decode_tags(encode_tags(L)) holds exactly the distinct names
\* of L, once each, and has_tag is true exactly for the names of L; a list
\* with an unrecognised name makes encode_tags raise ValueError and return
\* nothing.
C26_EncodeDecodeRoundTrip ==
    tagcall.op = "encode_tags" =>
        LET r == tagcall.result
        IN IF Range(tagcall.list) \subseteq Recognised
           THEN /\ r.exc = "none"
                /\ Range(decode_tags(r.value)) = Range(tagcall.list)
                /\ Len(decode_tags(r.value)) = Cardinality(Range(tagcall.list))
                /\ \A t \in Recognised :
                      has_tag(r.value, t) = Ok(t \in Range(tagcall.list))
           ELSE /\ r = Raises("ValueError")
                /\ tags = tagcall.before

\* A list with a duplicate, its names not in the order of TAGS, was encoded.
C26_Witness ==
    /\ tagcall.op = "encode_tags"
    /\ tagcall.list = <<"computer vision", "backend", "computer vision">>
    /\ tagcall.result.exc = "none"
    /\ tags = tagcall.result.value

\* C27: for every byte string a Post can hold and every recognised tag t,
\* add_tag (remove_tag) raises nothing and returns a value for which has_tag
\* is true (false) for t and as before for every other tag, and applying it
\* again changes nothing.
C27_AddRemoveTag ==
    (tagcall.op \in {"add_tag", "remove_tag"} /\ tagcall.tag \in Recognised) =>
        LET r == tagcall.result
            added == tagcall.op = "add_tag"
        IN /\ r.exc = "none"
           /\ has_tag(r.value, tagcall.tag) = Ok(added)
           /\ \A u \in Recognised \ {tagcall.tag} :
                 has_tag(r.value, u) = has_tag(tagcall.before, u)
           /\ r = IF added THEN add_tag(r.value, tagcall.tag)
                           ELSE remove_tag(r.value, tagcall.tag)

\* The names a column of binary digits stands for: bit TAGS[t] of the number
\* written there
NamesOfColumn(str) ==
    {t \in Recognised : Len(str) > TAGS[t] /\ str[Len(str) - TAGS[t]] = 1}

\* C28: a listing that the database answers returns every row of blogposts,
\* each once, and the tags of each returned post decode to the names that
\* its column holds, whatever tags value the stored post had (the default
\* empty byte string included); no row is dropped because the tags of a row
\* cannot be parsed.
C28_ListingReturnsEveryRow ==
    (reply.op = "post.list" /\ reply.db = "ok") =>
        /\ {p.uid : p \in reply.items} = {r.uid : r \in blogposts}
        /\ \A p \in reply.items :
              \E r \in blogposts :
                 /\ r.uid = p.uid
                 /\ Range(decode_tags(p.tags)) = NamesOfColumn(r.tags)

\* C29: an insert of default-constructed entities (no uid passed) that the
\* database answers stores every one of them: after it, each comment handed
\* in has its row, and a post has its row and the rows of its comments;
\* none is turned away for a uid that is already there.
C29_DefaultUidsNeverCollide ==
    [][(/\ reply'.op \in {"comment.insert", "comment.insert_batch", "post.insert"}
        /\ reply'.db = "ok"
        /\ \A i \in 1..Len(reply'.args) :
              reply'.args[i].uid \in {DefaultUid.Comment, DefaultUid.Post})
       => IF reply'.op = "post.insert"
          THEN LET post == reply'.args[1]
               IN /\ PostRow(post) \in blogposts'
                  /\ \A i \in 1..Len(post.comments) :
                        post.comments[i].uid = DefaultUid.Comment =>
                           CommentRow(post.comments[i], post.uid) \in comments'
          ELSE \A i \in 1..Len(reply'.args) :
                  \E r \in comments' : /\ r.uid = reply'.args[i].uid
                                        /\ r.content = reply'.args[i].content]_vars

====
